---- MODULE Spec2Model ----
(***************************************************************************)
(* The crawl engine of the scraping application: ScrapingService           *)
(* (startScraping, scrapeSingleWebsite, scrapeMultipleWebsites,            *)
(* stopScraping) running against the in-memory session store (MemStorage). *)
(*                                                                         *)
(* One run is a single sequential async task.  Every `await` of the source *)
(* is a suspension point: an action of the model runs from one resumption  *)
(* up to and including the synchronous part of the next awaited call (the  *)
(* store methods of MemStorage contain no await, so their effect happens   *)
(* when they are called).  stopScraping may run between any two actions.   *)
(***************************************************************************)
EXTENDS Integers, Sequences, FiniteSets, TLC

\* ---------------------------------------------------------------- bounds
MaxPerPage == 2        \* records one page evaluation returns at most
MaxResults == 3        \* records one run accumulates at most
MaxPagesCfg == 2       \* largest configured pagination.maxPages
MaxUrls == 2           \* candidate URLs the seed page yields at most
MaxWebsitesCfg == 2    \* largest configured options.maxWebsites

\* ------------------------------------------------------ program constants
DefaultMaxPages == 10      \* config.pagination.maxPages || 10
DefaultTotal == 1          \* config.pagination?.maxPages || 1
DefaultMaxWebsites == 20   \* config.options?.maxWebsites || 20

Sessions == {1, 2}         \* session ids a caller may name
ConfigIds == {1, 2}        \* configuration ids a caller may name
RecordVals == {1, 2}       \* contents of an extracted record
Url(i) == 100 + i          \* the i-th candidate URL of the seed page
NoUrl == 0                 \* a record without source_url
NoPattern == [set |-> FALSE, valid |-> TRUE, matches |-> {}]
NoSession == [absent |-> TRUE]
NoConfig == [absent |-> TRUE]
NoEntry == "undefined"     \* activeSessions.get(id) of an id without entry
Unset == 0                 \* an optional number left out of the configuration

\* filter patterns, each given by the set of strings it matches
IncludeOne == [set |-> TRUE, valid |-> TRUE, matches |-> {1}]
ExcludeFirstSite == [set |-> TRUE, valid |-> TRUE, matches |-> {Url(1)}]
Invalid == [set |-> TRUE, valid |-> FALSE, matches |-> {}]
FilterChoices ==
  { [include |-> NoPattern, exclude |-> NoPattern],
    [include |-> IncludeOne, exclude |-> NoPattern],
    [include |-> NoPattern, exclude |-> ExcludeFirstSite],
    [include |-> NoPattern, exclude |-> Invalid] }

VARIABLES
  configurations,  \* MemStorage.configurations : id -> configuration
  sessions,        \* MemStorage.sessions : id -> session
  activeSessions,  \* ScrapingService.activeSessions : id -> boolean
  pc,              \* where the run of each session is suspended
  run,             \* the locals of startScraping / scrape*Website
  hist,            \* history of the run (observations only)
  call             \* a pure function under examination: arguments and result

vars == <<configurations, sessions, activeSessions, pc, run, hist, call>>

\* ------------------------------------------------------------- sequences
RECURSIVE SeqsUpTo(_, _)
SeqsUpTo(S, n) ==
  IF n = 0 THEN {<<>>}
  ELSE LET shorter == SeqsUpTo(S, n - 1)
       IN shorter \cup {Append(q, x) : q \in {t \in shorter : Len(t) = n - 1}, x \in S}

Min(a, b) == IF a < b THEN a ELSE b

Or(a, b) == IF a # Unset THEN a ELSE b      \* JavaScript a || b on numbers

\* ----------------------------------------------------------- MemStorage
\* the store derives errors from the error log
updateSessionProgressCountingErrors(session, progress) ==
  IF session = NoSession THEN session
  ELSE [session EXCEPT !.progress = [progress EXCEPT !.errors = Len(session.errorLog)]]

updateSessionProgress(session, progress) ==
  IF session = NoSession THEN session
  ELSE [session EXCEPT !.progress = progress]

updateSessionResultsAppending(session, results) ==
  IF session = NoSession THEN session
  ELSE [session EXCEPT !.results = @ \o results]

updateSessionResults(session, results) ==
  IF session = NoSession THEN session
  ELSE [session EXCEPT !.results = results]

updateSessionStatus(session, status, completedAt) ==
  IF session = NoSession THEN session
  ELSE [session EXCEPT !.status = status,
                       !.completedAt = IF completedAt THEN TRUE ELSE @]

\* session.errorLog = [error]
addSessionErrorReplacing(session, error) ==
  IF session = NoSession THEN session
  ELSE [session EXCEPT !.errorLog = <<error>>]

addSessionError(session, error) ==
  IF session = NoSession THEN session
  ELSE [session EXCEPT !.errorLog = Append(@, error)]

\* the session the start route creates before it calls startScraping
createSession ==
  [status |-> "idle",
   progress |-> [current |-> 0, total |-> 0, extracted |-> 0, errors |-> 0],
   results |-> <<>>,
   errorLog |-> <<>>,
   completedAt |-> FALSE]

\* ------------------------------------------------------- pure functions
\* Strings are numbered: 1, 2 are lower-case texts, n + 50 is text n written
\* in upper case, 100 + i is the i-th URL.
Upper(value) == value + 50

Lower(value) == IF value > 50 /\ value < 100 THEN value - 50 ELSE value

Null == -1                 \* a field whose value is null

Empty == -2                \* the empty string

Undefined == -3            \* matches[1] of a pattern without a group

Truthy(value) == value \notin {Null, Empty, Undefined}

\* new RegExp(pattern) without the i flag
TestCaseSensitive(pattern, value) == value \in pattern.matches

\* new RegExp(pattern, 'i').test(value); matches: the strings the pattern
\* matches as written
Test(pattern, value) == Lower(value) \in {Lower(m) : m \in pattern.matches}

Values(item) == {item.v} \cup (IF item.source_url = NoUrl THEN {} ELSE {item.source_url})

\* a pattern that does not compile is skipped
FilterItemLenient(item, filters) ==
  IF filters.include.set /\ filters.include.valid
       /\ ~(\E x \in Values(item) : Truthy(x) /\ Test(filters.include, x)) THEN "drop"
  ELSE IF filters.exclude.set /\ filters.exclude.valid
       /\ (\E x \in Values(item) : Truthy(x) /\ Test(filters.exclude, x)) THEN "drop"
  ELSE "keep"

\* the callback of data.filter: new RegExp throws, or the item is kept or dropped
FilterItem(item, filters) ==
  IF filters.include.set /\ ~filters.include.valid THEN "throw"
  ELSE IF filters.include.set
       /\ ~(\E x \in Values(item) : Truthy(x) /\ Test(filters.include, x)) THEN "drop"
  ELSE IF filters.exclude.set /\ ~filters.exclude.valid THEN "throw"
  ELSE IF filters.exclude.set
       /\ (\E x \in Values(item) : Truthy(x) /\ Test(filters.exclude, x)) THEN "drop"
  ELSE "keep"

\* [threw |-> TRUE] when the call throws, else the surviving items in order
applyFilters(data, filters) ==
  IF \E k \in 1..Len(data) : FilterItem(data[k], filters) = "throw"
  THEN [threw |-> TRUE, data |-> <<>>]
  ELSE [threw |-> FALSE,
        data |-> SelectSeq(data, LAMBDA item : FilterItem(item, filters) = "keep")]

\* the last of several equal items survives
RECURSIVE removeDuplicatesKeepingLast(_)
removeDuplicatesKeepingLast(data) ==
  IF data = <<>> THEN <<>>
  ELSE LET rest == Tail(data)
       IN IF \E k \in 1..Len(rest) : rest[k] = Head(data)
          THEN removeDuplicatesKeepingLast(rest)
          ELSE <<Head(data)>> \o removeDuplicatesKeepingLast(rest)

\* an item is dropped when JSON.stringify gave the same key for an earlier
\* one; two items have the same key when they list the same fields with the
\* same values in the same order
RECURSIVE removeDuplicates(_)
removeDuplicates(data) ==
  IF data = <<>> THEN <<>>
  ELSE LET front == SubSeq(data, 1, Len(data) - 1)
           last == data[Len(data)]
       IN IF \E k \in 1..Len(front) : front[k] = last
          THEN removeDuplicates(front)
          ELSE Append(removeDuplicates(front), last)

\* ------------------------------------------------------------ the state
\* the configurations an operator can have stored under id 1
ConfigChoices ==
  { c \in [ handlePagination : BOOLEAN, nextSelector : BOOLEAN,
            maxPages : 0..MaxPagesCfg, removeDuplicates : BOOLEAN,
            multiWebsite : BOOLEAN, extractUrlsFromResults : BOOLEAN,
            maxWebsites : 0..MaxWebsitesCfg, filters : FilterChoices ] :
      \* settings the selected mode never reads are left at their defaults
      /\ c.extractUrlsFromResults => c.multiWebsite
      /\ (c.multiWebsite /\ c.extractUrlsFromResults)
           => (~c.handlePagination /\ ~c.nextSelector /\ c.maxPages = Unset)
      /\ ~(c.multiWebsite /\ c.extractUrlsFromResults) => c.maxWebsites = Unset
      /\ c.nextSelector => c.handlePagination }

NoCall == [fn |-> "none"]

NoRun ==
  [configId |-> 0, config |-> NoConfig, allResults |-> <<>>, shared |-> FALSE,
   currentPage |-> 0, urls |-> <<>>, maxWebsites |-> 0, i |-> 0,
   currentWebsite |-> 0]

\* what an observer of the run has seen so far:
\*   stopped        stopScraping was called for the session
\*   stopInIter     the iteration in flight when it was called (0: none)
\*   stopEarly      that call came before the iteration had extracted
\*   loads          page.goto calls issued
\*   loadAfterStop  a page.goto of the loop was issued after such a stop
\*   opened         browser.newPage returned a page
\*   calls          the store methods the run has called
\*   faults         the operations that threw
\*   failed         the iterations that threw, with the stage that threw
\*   pushed         the iterations that pushed a Progress snapshot
\*   visited        the candidate URLs loaded, in order
\*   extracted      the filtered records of all iterations, in order
\*   dropped        the tagged records applyFilters removed in multi-site mode
NoHist ==
  [stopped |-> FALSE, stopInIter |-> 0, stopEarly |-> FALSE, loads |-> 0,
   loadAfterStop |-> FALSE, opened |-> FALSE, calls |-> {}, faults |-> {},
   failed |-> {}, pushed |-> {}, visited |-> <<>>, extracted |-> <<>>,
   dropped |-> {}]

Init ==
  /\ \E c \in ConfigChoices : configurations = [id \in ConfigIds |-> IF id = 1 THEN c ELSE NoConfig]
  /\ sessions = [s \in Sessions |-> IF s = 1 THEN createSession ELSE NoSession]
  /\ activeSessions = [s \in Sessions |-> NoEntry]
  /\ pc = [s \in Sessions |-> "idle"]
  /\ run = [s \in Sessions |-> NoRun]
  /\ hist = [s \in Sessions |-> NoHist]
  /\ call = NoCall

\* -------------------------------------------------- fragments of a run
Resume(s, label, r, session, h) ==
  /\ pc' = [pc EXCEPT ![s] = label]
  /\ run' = [run EXCEPT ![s] = r]
  /\ sessions' = [sessions EXCEPT ![s] = session]
  /\ hist' = [hist EXCEPT ![s] = h]
  /\ UNCHANGED <<configurations, call>>

IsActiveHas(flag) == flag # NoEntry    \* this.activeSessions.has(sessionId)

IsActive(flag) == flag = "true"        \* this.activeSessions.get(sessionId)

BeginLoad(h, url) ==
  [h EXCEPT !.loads = @ + 1,
            !.loadAfterStop = @ \/ h.stopInIter # 0,
            !.visited = Append(@, url)]

\* the duplicates are removed whether removeDuplicates is set or not
FinalResultsDeduplicated(config, allResults) == removeDuplicates(allResults)

\* finalResults of startScraping
FinalResults(config, allResults) ==
  IF config.removeDuplicates THEN removeDuplicates(allResults) ELSE allResults

\* the session is marked completed first, the final results never arrive
FinishMarksFirst(s, r, session, h) ==
  Resume(s, "finalResults", r, updateSessionStatus(session, "completed", TRUE),
         [h EXCEPT !.calls = @ \cup {"completed"}])

\* startScraping after the crawl returned: dedupe, push the final results
Finish(s, r, session, h) ==
  LET finalResults == FinalResults(r.config, r.allResults)
  IN Resume(s, "finalResults", r, updateSessionResults(session, finalResults),
            [h EXCEPT !.calls = @ \cup {"updateSessionResults"}])

\* catch (error) of startScraping
Catch(s, r, session, h, message) ==
  Resume(s, "catch", r, addSessionError(session, <<message, 0>>),
         [h EXCEPT !.faults = @ \cup {message}, !.calls = @ \cup {"addSessionError"}])

\* while (hasNextPage && this.activeSessions.get(sessionId))
WhileHasNextPage(s, hasNextPage, r, session, h) ==
  IF hasNextPage /\ IsActive(activeSessions[s])
  THEN Resume(s, "goto", r, session, BeginLoad(h, NoUrl))
  ELSE Finish(s, r, session, h)

\* for (...; i < maxWebsites && this.activeSessions.get(sessionId); i++)
ForEachWebsite(s, r, session, h) ==
  IF r.i < r.maxWebsites /\ IsActive(activeSessions[s])
  THEN Resume(s, "siteGoto", [r EXCEPT !.currentWebsite = @ + 1], session,
              BeginLoad(h, r.urls[r.i + 1]))
  ELSE Finish(s, r, session, h)

\* the iteration rethrows instead of ending the loop
PageErrorEscalated(s, r, session, h, stage) ==
  Resume(s, "catch", r, addSessionError(session, <<"Page", r.currentPage>>),
         [h EXCEPT !.faults = @ \cup {"page"}, !.calls = @ \cup {"addSessionError"},
                   !.failed = @ \cup {<<r.currentPage, stage>>}])

\* catch (error) of one iteration of scrapeSingleWebsite
PageError(s, r, session, h, stage) ==
  Resume(s, "pageError", r, addSessionError(session, <<"Page", r.currentPage>>),
         [h EXCEPT !.faults = @ \cup {"page"}, !.calls = @ \cup {"addSessionError"},
                   !.failed = @ \cup {<<r.currentPage, stage>>}])

\* catch (error) of one iteration of scrapeMultipleWebsites
SiteError(s, r, session, h, stage) ==
  Resume(s, "siteError", r, addSessionError(session, <<"Website", r.currentWebsite>>),
         [h EXCEPT !.faults = @ \cup {"site"}, !.calls = @ \cup {"addSessionError"},
                   !.failed = @ \cup {<<r.currentWebsite, stage>>}])

\* the setup error is rethrown to startScraping
SetupErrorEscalated(s, r, session, h) ==
  Resume(s, "catch", r, addSessionError(session, <<"Multi-website setup error", 0>>),
         [h EXCEPT !.faults = @ \cup {"setup"}, !.calls = @ \cup {"addSessionError"}])

\* the outer catch (error) of scrapeMultipleWebsites
SetupError(s, r, session, h) ==
  Resume(s, "setupError", r, addSessionError(session, <<"Multi-website setup error", 0>>),
         [h EXCEPT !.faults = @ \cup {"setup"}, !.calls = @ \cup {"addSessionError"}])

\* ------------------------------------------------------- startScraping
\* config.options?.multiWebsite && config.options?.extractUrlsFromResults
IsMulti(config) == config.multiWebsite /\ config.extractUrlsFromResults

\* startScraping(configId, sessionId) is called: storage.getConfiguration
\* looks the configuration up at once and hands it over at the resumption
StartScraping(configId, s) ==
  /\ pc[s] = "idle"
  /\ sessions[s] # NoSession
  /\ pc' = [pc EXCEPT ![s] = "getConfiguration"]
  /\ run' = [run EXCEPT ![s] = [NoRun EXCEPT !.configId = configId,
                                             !.config = configurations[configId]]]
  /\ UNCHANGED <<configurations, sessions, activeSessions, hist, call>>

\* the session is marked running before the configuration is looked at
ConfigurationLoadedEager(s) ==
  /\ pc[s] = "getConfiguration"
  /\ LET config == run[s].config
         running == updateSessionStatus(sessions[s], "running", FALSE)
         h == [hist[s] EXCEPT !.calls = @ \cup {"running"}]
     IN IF config = NoConfig
        THEN /\ Catch(s, run[s], running, h, "Configuration not found")
             /\ UNCHANGED activeSessions
        ELSE /\ activeSessions' = [activeSessions EXCEPT ![s] = "true"]
             /\ Resume(s, "initBrowser", [run[s] EXCEPT !.config = config], running, h)

\* the configuration arrives: register the session and mark it running
ConfigurationLoaded(s) ==
  /\ pc[s] = "getConfiguration"
  /\ LET config == run[s].config
     IN IF config = NoConfig
        THEN /\ Catch(s, run[s], sessions[s], hist[s], "Configuration not found")
             /\ UNCHANGED activeSessions
        ELSE /\ activeSessions' = [activeSessions EXCEPT ![s] = "true"]
             /\ Resume(s, "initBrowser", [run[s] EXCEPT !.config = config],
                       updateSessionStatus(sessions[s], "running", FALSE),
                       [hist[s] EXCEPT !.calls = @ \cup {"running"}])

\* initBrowser, newPage, setUserAgent; then the crawl starts
PageOpened(s) ==
  /\ pc[s] = "initBrowser"
  /\ UNCHANGED activeSessions
  /\ \E ok \in BOOLEAN :
       LET r == run[s]  session == sessions[s]  h == hist[s]
           opened == [h EXCEPT !.opened = TRUE]
       IN IF ~ok THEN Catch(s, r, session, h, "browser")
          ELSE IF IsMulti(r.config)
          THEN Resume(s, "seedGoto", r, session, [opened EXCEPT !.loads = @ + 1])
          ELSE WhileHasNextPage(s, TRUE, [r EXCEPT !.currentPage = 1], session, opened)

\* await storage.updateSessionResults(sessionId, finalResults) returned
FinalResultsPushed(s) ==
  /\ pc[s] = "finalResults"
  /\ UNCHANGED activeSessions
  /\ Resume(s, "completed", run[s],
            updateSessionStatus(sessions[s], "completed", TRUE),
            [hist[s] EXCEPT !.calls = @ \cup {"completed"}])

\* page.close(), then the finally block; or page.close() throws
PageClosed(s) ==
  /\ pc[s] = "completed"
  /\ \E ok \in BOOLEAN :
       IF ok
       THEN /\ activeSessions' = [activeSessions EXCEPT ![s] = NoEntry]
            /\ Resume(s, "done", run[s], sessions[s], hist[s])
       ELSE /\ Catch(s, run[s], sessions[s], hist[s], "close")
            /\ UNCHANGED activeSessions

\* await storage.addSessionError returned in the catch block
ErrorLogged(s) ==
  /\ pc[s] = "catch"
  /\ UNCHANGED activeSessions
  /\ Resume(s, "failed", run[s],
            updateSessionStatus(sessions[s], "failed", TRUE),
            [hist[s] EXCEPT !.calls = @ \cup {"failed"}])

\* the run ends without the finally block
FinallyKeepsEntry(s) ==
  /\ pc[s] = "failed"
  /\ UNCHANGED activeSessions
  /\ Resume(s, "done", run[s], sessions[s], hist[s])

\* finally { this.activeSessions.delete(sessionId) }
Finally(s) ==
  /\ pc[s] = "failed"
  /\ activeSessions' = [activeSessions EXCEPT ![s] = NoEntry]
  /\ Resume(s, "done", run[s], sessions[s], hist[s])

\* ------------------------------------------------- scrapeSingleWebsite
NewProgress(current, total, extracted) ==
  [current |-> current, total |-> total, extracted |-> extracted, errors |-> 0]

SingleTotal(config) == Or(config.maxPages, DefaultTotal)

\* currentPage > maxPages
PageLimitOffByOne(config) == Or(config.maxPages, DefaultMaxPages) + 1

PageLimit(config) == Or(config.maxPages, DefaultMaxPages)

\* what page.evaluate can return for one page: untagged records
PageResults(r) ==
  { [k \in 1..Len(q) |-> [v |-> q[k], source_url |-> NoUrl]] :
      q \in { t \in SeqsUpTo(RecordVals, MaxPerPage) :
                Len(r.allResults) + Len(t) <= MaxResults } }

\* allResults.push(...filteredResults): the store sees it when it holds the array
Push(r, session, allResults) ==
  IF r.shared /\ session # NoSession
  THEN [session EXCEPT !.results = allResults]
  ELSE session

\* allResults = filteredResults
AccumulateReplacing(allResults, filteredResults) == filteredResults

\* allResults.push(...filteredResults)
Accumulate(allResults, filteredResults) == allResults \o filteredResults

Extracted(h, n, filteredResults) ==
  [h EXCEPT !.pushed = @ \cup {n},
            !.calls = @ \cup {"updateSessionProgress"},
            !.extracted = @ \o filteredResults]

\* await page.goto(currentUrl) returned or threw
PageLoaded(s) ==
  /\ pc[s] = "goto"
  /\ UNCHANGED activeSessions
  /\ \E ok \in BOOLEAN :
       IF ok THEN Resume(s, "evaluate", run[s], sessions[s], hist[s])
       ELSE PageError(s, run[s], sessions[s], hist[s], "load")

\* extractDataFromPage, applyFilters, push, storage.updateSessionProgress
PageExtracted(s) ==
  /\ pc[s] = "evaluate"
  /\ UNCHANGED activeSessions
  /\ LET r == run[s]  session == sessions[s]  h == hist[s]
     IN \/ PageError(s, r, session, h, "extract")      \* page.evaluate throws
        \/ \E pageResults \in PageResults(r) :
             LET filtered == applyFilters(pageResults, r.config.filters)
                 allResults == Accumulate(r.allResults, filtered.data)
                 progress == NewProgress(r.currentPage, SingleTotal(r.config),
                                         Len(allResults))
             IN IF filtered.threw THEN PageError(s, r, session, h, "extract")
                ELSE Resume(s, "progress", [r EXCEPT !.allResults = allResults],
                            updateSessionProgress(Push(r, session, allResults), progress),
                            Extracted(h, r.currentPage, filtered.data))

\* await updateSessionProgress returned: storage.updateSessionResults
ProgressPushed(s) ==
  /\ pc[s] = "progress"
  /\ UNCHANGED activeSessions
  /\ Resume(s, "results", [run[s] EXCEPT !.shared = TRUE],
            updateSessionResults(sessions[s], run[s].allResults),
            [hist[s] EXCEPT !.calls = @ \cup {"updateSessionResults"}])

\* await updateSessionResults returned: the pagination decision
ResultsPushed(s) ==
  /\ pc[s] = "results"
  /\ UNCHANGED activeSessions
  /\ LET r == run[s]
     IN IF r.config.handlePagination /\ r.config.nextSelector
        THEN IF r.currentPage >= PageLimit(r.config)
             THEN WhileHasNextPage(s, FALSE, r, sessions[s], hist[s])
             ELSE Resume(s, "nextButton", r, sessions[s], hist[s])
        ELSE WhileHasNextPage(s, FALSE, r, sessions[s], hist[s])

\* page.$(nextSelector), the disabled test, click and the settle wait
NextButton(s) ==
  /\ pc[s] = "nextButton"
  /\ UNCHANGED activeSessions
  /\ LET r == run[s]
     IN \E button \in {"absent", "disabled", "clicked", "throw"} :
          IF button = "throw" THEN PageError(s, r, sessions[s], hist[s], "next")
          ELSE IF button = "clicked"
          THEN WhileHasNextPage(s, TRUE, [r EXCEPT !.currentPage = @ + 1],
                                sessions[s], hist[s])
          ELSE WhileHasNextPage(s, FALSE, r, sessions[s], hist[s])

HasNextPageKept == TRUE

\* hasNextPage = false in the catch of the iteration
HasNextPageAfterError == FALSE

\* await addSessionError returned in the catch of the iteration
PageErrorLogged(s) ==
  /\ pc[s] = "pageError"
  /\ UNCHANGED activeSessions
  /\ WhileHasNextPage(s, HasNextPageAfterError, run[s], sessions[s], hist[s])

\* ---------------------------------------------- scrapeMultipleWebsites
\* await page.goto(config.targetUrl) returned or threw
SeedLoaded(s) ==
  /\ pc[s] = "seedGoto"
  /\ UNCHANGED activeSessions
  /\ \E ok \in BOOLEAN :
       IF ok THEN Resume(s, "discover", run[s], sessions[s], hist[s])
       ELSE SetupError(s, run[s], sessions[s], hist[s])

\* urls.length, whatever maxWebsites says
SiteLimitUncapped(urls, config) == Len(urls)

SiteLimit(urls, config) == Min(Len(urls), Or(config.maxWebsites, DefaultMaxWebsites))

\* the links the seed page shows, in document order; a URL may show more
\* than once, and Url(i) is the i-th different one
CandidateLinks ==
  { q \in SeqsUpTo({Url(i) : i \in 1..MaxUrls}, MaxUrls + 1) :
      \A k \in 1..Len(q) : \A i \in 1..MaxUrls :
        q[k] = Url(i) => \A j \in 1..(i - 1) : \E m \in 1..(k - 1) : q[m] = Url(j) }

\* urls.push(url)
UrlArray(links) == links

\* urlSet.add(url) for every link, then Array.from(urlSet)
RECURSIVE UrlSet(_)
UrlSet(links) ==
  IF links = <<>> THEN <<>>
  ELSE LET front == SubSeq(links, 1, Len(links) - 1)
           url == links[Len(links)]
       IN IF \E k \in 1..Len(front) : front[k] = url
          THEN UrlSet(front)
          ELSE Append(UrlSet(front), url)

\* page.evaluate returned the candidate URLs or threw
Discovered(s) ==
  /\ pc[s] = "discover"
  /\ UNCHANGED activeSessions
  /\ \/ SetupError(s, run[s], sessions[s], hist[s])
     \/ \E links \in CandidateLinks :
          LET urls == UrlSet(links)
              r == [run[s] EXCEPT !.urls = urls,
                                  !.maxWebsites = SiteLimit(urls, run[s].config),
                                  !.i = 0, !.currentWebsite = 0]
          IN ForEachWebsite(s, r, sessions[s], hist[s])

\* await page.goto(url) returned or threw
SiteLoaded(s) ==
  /\ pc[s] = "siteGoto"
  /\ UNCHANGED activeSessions
  /\ \E ok \in BOOLEAN :
       IF ok THEN Resume(s, "siteEvaluate", run[s], sessions[s], hist[s])
       ELSE SiteError(s, run[s], sessions[s], hist[s], "load")

\* the records are appended as the page gave them
WithSourceForgotten(pageResults, url) == pageResults

\* resultsWithSource: every record of the page gets source_url
WithSource(pageResults, url) ==
  [k \in 1..Len(pageResults) |-> [pageResults[k] EXCEPT !.source_url = url]]

\* extractDataFromPage, tag, applyFilters, push, storage.updateSessionProgress
SiteExtracted(s) ==
  /\ pc[s] = "siteEvaluate"
  /\ UNCHANGED activeSessions
  /\ LET r == run[s]  session == sessions[s]  h == hist[s]
     IN \/ SiteError(s, r, session, h, "extract")      \* page.evaluate throws
        \/ \E pageResults \in PageResults(r) :
             LET resultsWithSource == WithSource(pageResults, r.urls[r.i + 1])
                 filtered == applyFilters(resultsWithSource, r.config.filters)
                 allResults == Accumulate(r.allResults, filtered.data)
                 progress == NewProgress(r.currentWebsite, r.maxWebsites,
                                         Len(allResults))
             IN IF filtered.threw THEN SiteError(s, r, session, h, "extract")
                ELSE Resume(s, "siteProgress", [r EXCEPT !.allResults = allResults],
                            updateSessionProgress(Push(r, session, allResults), progress),
                            [Extracted(h, r.currentWebsite, filtered.data)
                               EXCEPT !.dropped = @ \cup
                                 { resultsWithSource[k] : k \in
                                     { n \in 1..Len(resultsWithSource) :
                                         FilterItem(resultsWithSource[n], r.config.filters)
                                           = "drop" } }])

\* await updateSessionProgress returned: storage.updateSessionResults
SiteProgressPushed(s) ==
  /\ pc[s] = "siteProgress"
  /\ UNCHANGED activeSessions
  /\ Resume(s, "siteResults", [run[s] EXCEPT !.shared = TRUE],
            updateSessionResults(sessions[s], run[s].allResults),
            [hist[s] EXCEPT !.calls = @ \cup {"updateSessionResults"}])

\* await updateSessionResults returned: i++ and the loop test
SiteResultsPushed(s) ==
  /\ pc[s] = "siteResults"
  /\ UNCHANGED activeSessions
  /\ ForEachWebsite(s, [run[s] EXCEPT !.i = @ + 1], sessions[s], hist[s])

\* the catch of one site ends the traversal
SiteErrorLoggedBreaks(s) ==
  /\ pc[s] = "siteError"
  /\ UNCHANGED activeSessions
  /\ Finish(s, run[s], sessions[s], hist[s])

\* await addSessionError returned in the catch of one site: i++, loop test
SiteErrorLogged(s) ==
  /\ pc[s] = "siteError"
  /\ UNCHANGED activeSessions
  /\ ForEachWebsite(s, [run[s] EXCEPT !.i = @ + 1], sessions[s], hist[s])

\* await addSessionError returned in the outer catch: the crawl returns
SetupErrorLogged(s) ==
  /\ pc[s] = "setupError"
  /\ UNCHANGED activeSessions
  /\ Finish(s, run[s], sessions[s], hist[s])

\* -------------------------------------------------------- stopScraping
SinglePcs == {"goto", "evaluate", "progress", "results", "nextButton", "pageError"}
SitePcs == {"siteGoto", "siteEvaluate", "siteProgress", "siteResults", "siteError"}

LoadingPcs == {"goto", "evaluate", "siteGoto", "siteEvaluate"}

\* the iteration of the crawl loop that is in flight (0: none)
InFlight(s) ==
  IF pc[s] \in SinglePcs THEN run[s].currentPage
  ELSE IF pc[s] \in SitePcs THEN run[s].currentWebsite
  ELSE 0

\* every entry of activeSessions is set to false
StopScrapingAll(s) ==
  /\ activeSessions' = [t \in Sessions |-> "false"]
  /\ sessions' = [sessions EXCEPT ![s] = updateSessionStatus(@, "stopped", TRUE)]
  /\ hist' = [hist EXCEPT ![s].stopped = TRUE,
                          ![s].stopInIter = IF InFlight(s) # 0 THEN InFlight(s) ELSE @,
                          ![s].stopEarly = @ \/ pc[s] \in LoadingPcs]
  /\ UNCHANGED <<configurations, pc, run, call>>

StopScraping(s) ==
  /\ activeSessions' = [activeSessions EXCEPT ![s] = "false"]
  /\ sessions' = [sessions EXCEPT ![s] = updateSessionStatus(@, "stopped", TRUE)]
  /\ hist' = [hist EXCEPT ![s].stopped = TRUE,
                          ![s].stopInIter = IF InFlight(s) # 0 THEN InFlight(s) ELSE @,
                          ![s].stopEarly = @ \/ pc[s] \in LoadingPcs]
  /\ UNCHANGED <<configurations, pc, run, call>>

\* ------------------------------------------------------ specification
Step(s) ==
  \/ ConfigurationLoaded(s)
  \/ PageOpened(s)
  \/ PageLoaded(s)
  \/ PageExtracted(s)
  \/ ProgressPushed(s)
  \/ ResultsPushed(s)
  \/ NextButton(s)
  \/ PageErrorLogged(s)
  \/ SeedLoaded(s)
  \/ Discovered(s)
  \/ SiteLoaded(s)
  \/ SiteExtracted(s)
  \/ SiteProgressPushed(s)
  \/ SiteResultsPushed(s)
  \/ SiteErrorLogged(s)
  \/ SetupErrorLogged(s)
  \/ FinalResultsPushed(s)
  \/ PageClosed(s)
  \/ ErrorLogged(s)
  \/ Finally(s)

Next ==
  \/ \E configId \in ConfigIds, s \in Sessions : StartScraping(configId, s)
  \/ \E s \in Sessions : Step(s)
  \/ \E s \in Sessions : StopScraping(s)

Spec == Init /\ [][Next]_vars

\* ---------------------------------------------------------- properties
Terminal == {"completed", "failed", "stopped"}

Stored(s) == sessions[s] # NoSession

Single(s) == run[s].config # NoConfig /\ ~IsMulti(run[s].config)

Multi(s) == run[s].config # NoConfig /\ IsMulti(run[s].config)

\* the iterations of the run of s that threw
FailedIterations(s) == {f[1] : f \in hist[s].failed}

\* the run of s is over, nobody called stop, and only `faults` were thrown
Undisturbed(s, faults) ==
  /\ pc[s] = "done"
  /\ ~hist[s].stopped
  /\ hist[s].faults = faults

\* C1: once the status of a session is completed, failed or stopped, no step
\* of startScraping and no stopScraping call changes it.
TerminalIsAbsorbing ==
  [][\A s \in Sessions :
       (Stored(s) /\ sessions[s].status \in Terminal)
         => sessions'[s].status = sessions[s].status]_vars

\* C2: when stopScraping was called while a single-site run was inside an
\* iteration of its pagination loop, the status of the session after the run
\* has finished is stopped.
StoppedRunEndsStopped ==
  \A s \in Sessions :
    (pc[s] = "done" /\ Single(s) /\ hist[s].stopInIter # 0)
      => sessions[s].status = "stopped"

\* C3: when stopScraping was called while a single-site run was inside an
\* iteration, the results of the session after the run has finished are the
\* filtered records of every page that completed its extraction, in order
\* (deduplicated when removeDuplicates is set), and they are not empty when
\* some page yielded a record.
StopKeepsResults ==
  \A s \in Sessions :
    (pc[s] = "done" /\ Single(s) /\ hist[s].stopInIter # 0)
      => /\ sessions[s].results = FinalResults(run[s].config, hist[s].extracted)
         /\ hist[s].extracted # <<>> => sessions[s].results # <<>>

StopKeepsResultsWitness ==
  \E s \in Sessions :
    /\ pc[s] = "done" /\ Single(s)
    /\ hist[s].stopInIter = 2 /\ hist[s].stopEarly
    /\ 2 \in hist[s].pushed
    /\ Len(sessions[s].results) >= 2

\* C4: after stopScraping was called while an iteration of the crawl loop
\* was in flight, the run issues no further page.goto (no further page in
\* single-site mode, no further site in multi-site mode), and the iteration
\* in flight is not cut short: unless it throws, it appends its records and
\* pushes its Progress snapshot, which stays the last one.
CooperativeCancel ==
  \A s \in Sessions :
    hist[s].stopInIter # 0
      => /\ ~hist[s].loadAfterStop
         /\ (pc[s] = "done" /\ hist[s].stopEarly
               /\ hist[s].stopInIter \notin FailedIterations(s))
              => /\ hist[s].stopInIter \in hist[s].pushed
                 /\ sessions[s].progress.current = hist[s].stopInIter

CooperativeCancelWitness ==
  \E s \in Sessions :
    /\ pc[s] = "done" /\ Multi(s)
    /\ hist[s].stopInIter = 1 /\ hist[s].stopEarly
    /\ 1 \in hist[s].pushed
    /\ run[s].maxWebsites = 2
    /\ hist[s].visited = <<Url(1)>>

\* C5: in a single-site run that nobody stops and in which nothing else
\* throws, a failure in the iteration of page k >= 2 leaves the session
\* completed, with the records of pages 1..k-1 in the results, exactly one
\* error-log entry, which names page k, and no page loaded after page k.
LaterPageFailureCompletes ==
  \A s \in Sessions : \A k \in 2..DefaultMaxPages :
    (Undisturbed(s, {"page"}) /\ Single(s) /\ k \in FailedIterations(s))
      => /\ sessions[s].status = "completed"
         /\ 1..(k - 1) \subseteq hist[s].pushed
         /\ sessions[s].results = FinalResults(run[s].config, hist[s].extracted)
         /\ sessions[s].errorLog = << <<"Page", k>> >>
         /\ hist[s].loads = k

LaterPageFailureWitness ==
  \E s \in Sessions :
    /\ Undisturbed(s, {"page"}) /\ Single(s)
    /\ hist[s].failed = {<<2, "load">>}
    /\ sessions[s].status = "completed"
    /\ Len(sessions[s].results) >= 1

\* C6 as claimed: when the load of page 1 of a single-site run fails, the
\* session ends failed.
FirstLoadFailureFails ==
  \A s \in Sessions :
    (Undisturbed(s, {"page"}) /\ Single(s) /\ <<1, "load">> \in hist[s].failed)
      => sessions[s].status = "failed"

\* C6 as amended: when the load of page 1 of a single-site run fails, the
\* failure is handled like that of any other page: one error-log entry that
\* names page 1 is appended, no further page is loaded, and the session ends
\* completed with empty results.
FirstLoadFailureCompletes ==
  \A s \in Sessions :
    (Undisturbed(s, {"page"}) /\ Single(s) /\ <<1, "load">> \in hist[s].failed)
      => /\ sessions[s].status = "completed"
         /\ sessions[s].completedAt
         /\ sessions[s].results = <<>>
         /\ sessions[s].errorLog = << <<"Page", 1>> >>
         /\ hist[s].loads = 1

FirstLoadFailureWitness ==
  \E s \in Sessions :
    /\ Undisturbed(s, {"page"}) /\ Single(s)
    /\ hist[s].failed = {<<1, "load">>}
    /\ sessions[s].status = "completed"

\* C7: when startScraping is given a configuration id that is not stored,
\* the session is never marked running, exactly one error-log entry is
\* appended, no page is opened or loaded, neither results nor progress are
\* pushed, and (unless somebody calls stop) the session ends failed.
MissingConfigurationNeverRuns ==
  \A s \in Sessions :
    "Configuration not found" \in hist[s].faults
      => /\ hist[s].calls \subseteq {"addSessionError", "failed"}
         /\ sessions[s].status # "running"
         /\ ~hist[s].opened /\ hist[s].loads = 0
         /\ sessions[s].results = createSession.results
         /\ sessions[s].progress = createSession.progress
         /\ sessions[s].errorLog = << <<"Configuration not found", 0>> >>
         /\ activeSessions[s] # "true"
         /\ (pc[s] = "done" /\ ~hist[s].stopped) => sessions[s].status = "failed"

MissingConfigurationWitness ==
  \E s \in Sessions :
    /\ Undisturbed(s, {"Configuration not found"})
    /\ run[s].configId = 2
    /\ sessions[s].status = "failed"

\* C8 as claimed: in multi-site mode a failure during discovery marks the
\* run failed.
DiscoveryFailureFails ==
  \A s \in Sessions :
    (Undisturbed(s, {"setup"}) /\ Multi(s)) => sessions[s].status = "failed"

\* C8 as amended: in multi-site mode a failure during discovery is caught
\* by scrapeMultipleWebsites: one "Multi-website setup error" entry is
\* appended, no candidate site is fetched, and the run ends completed with
\* empty results.
DiscoveryFailureCompletes ==
  \A s \in Sessions :
    (Undisturbed(s, {"setup"}) /\ Multi(s))
      => /\ sessions[s].status = "completed"
         /\ sessions[s].errorLog = << <<"Multi-website setup error", 0>> >>
         /\ hist[s].visited = <<>>
         /\ sessions[s].results = <<>>

DiscoveryFailureWitness ==
  \E s \in Sessions :
    /\ Undisturbed(s, {"setup"}) /\ Multi(s)
    /\ sessions[s].status = "completed"
    /\ Len(sessions[s].errorLog) = 1

\* C9: in a multi-site run that nobody stops, a failure on one candidate
\* site appends one error-log entry and the traversal goes on: every
\* candidate up to the cap is loaded, in order, the records of the other
\* sites are kept, and the run ends completed.
SiteFailureIsIsolated ==
  \A s \in Sessions :
    (Multi(s) /\ (Undisturbed(s, {"site"}) \/ Undisturbed(s, {})))
      => LET limit == SiteLimit(run[s].urls, run[s].config)
         IN /\ hist[s].visited = SubSeq(run[s].urls, 1, limit)
            /\ hist[s].pushed = (1..limit) \ FailedIterations(s)
            /\ Len(sessions[s].errorLog) = Cardinality(FailedIterations(s))
            /\ \A k \in FailedIterations(s) :
                 \E n \in 1..Len(sessions[s].errorLog) :
                   sessions[s].errorLog[n] = <<"Website", k>>
            /\ sessions[s].results = FinalResults(run[s].config, hist[s].extracted)
            /\ sessions[s].status = "completed"

SiteFailureWitness ==
  \E s \in Sessions :
    /\ Undisturbed(s, {"site"}) /\ Multi(s)
    /\ hist[s].failed = {<<1, "load">>}
    /\ hist[s].visited = <<Url(1), Url(2)>>
    /\ 2 \in hist[s].pushed
    /\ Len(sessions[s].results) >= 1
    /\ sessions[s].status = "completed"

\* C10: the Progress snapshots pushed to the store of one session never
\* decrease in any component (current, total, extracted, errors), in
\* single-site and in multi-site mode.
ProgressLeq(p, q) ==
  /\ p.current <= q.current
  /\ p.total <= q.total
  /\ p.extracted <= q.extracted
  /\ p.errors <= q.errors

ProgressIsMonotone ==
  [][\A s \in Sessions :
       Stored(s) => ProgressLeq(sessions[s].progress, sessions'[s].progress)]_vars

ProgressIsMonotoneWitness ==
  \E s \in Sessions :
    /\ Stored(s)
    /\ sessions[s].progress.current >= 2
    /\ sessions[s].progress.extracted >= 2
    /\ {1, 2} \subseteq hist[s].pushed

\* C11: every Progress snapshot in the store has errors = 0, however many
\* entries the error log of the session holds.
ProgressErrorsIsZero ==
  \A s \in Sessions : Stored(s) => sessions[s].progress.errors = 0

ProgressErrorsIsZeroWitness ==
  \E s \in Sessions :
    /\ Multi(s)
    /\ 2 \in hist[s].pushed
    /\ sessions[s].progress.current = 2
    /\ Len(sessions[s].errorLog) >= 1
    /\ sessions[s].progress.errors = 0

\* C12: a single-site run issues at most maxPages page loads (at most 10
\* when maxPages is not set), whatever the next control does; when
\* handlePagination is off or no nextSelector is configured it issues at
\* most one, and exactly one once it has opened its page and run to its end
\* without a stop.
PagesAreCapped ==
  \A s \in Sessions :
    Single(s)
      => LET config == run[s].config
             cap == IF config.maxPages # Unset THEN config.maxPages
                    ELSE DefaultMaxPages
         IN /\ hist[s].loads <= cap
            /\ ~(config.handlePagination /\ config.nextSelector)
                 => /\ hist[s].loads <= 1
                    /\ (pc[s] = "done" /\ hist[s].opened /\ ~hist[s].stopped)
                         => hist[s].loads = 1

PagesAreCappedWitness ==
  \E s \in Sessions :
    /\ pc[s] = "done" /\ Single(s)
    /\ run[s].config.maxPages = Unset
    /\ hist[s].loads = DefaultMaxPages
    /\ DefaultMaxPages \in hist[s].pushed

\* C22: in multi-site mode every record a site appends to the accumulated
\* results carries the URL of that site (the candidate loaded last) as
\* source_url, and every record in the results of the session carries the
\* URL of a site the run has loaded.
RecordsCarrySourceUrl ==
  [][\A s \in Sessions :
       Multi(s)
         => /\ (pc[s] = "siteEvaluate" /\ pc'[s] = "siteProgress")
                 => /\ Len(run'[s].allResults) >= Len(run[s].allResults)
                    /\ \A k \in (Len(run[s].allResults) + 1)..Len(run'[s].allResults) :
                         run'[s].allResults[k].source_url
                           = hist[s].visited[Len(hist[s].visited)]
            /\ \A k \in 1..Len(sessions'[s].results) :
                 \E n \in 1..Len(hist'[s].visited) :
                   sessions'[s].results[k].source_url = hist'[s].visited[n]]_vars

RecordsCarrySourceUrlWitness ==
  \E s \in Sessions :
    /\ Multi(s) /\ pc[s] = "done"
    /\ Len(sessions[s].results) = 2
    /\ sessions[s].results[1].source_url = Url(1)
    /\ sessions[s].results[2].source_url = Url(2)

\* C23: in multi-site mode whether a record survives applyFilters does not
\* depend on the URL of its site: a record is removed only if the filter
\* removes it without its source_url, and kept only if the filter keeps it
\* without its source_url.
SurvivalIgnoresSourceUrl ==
  \A s \in Sessions :
    Multi(s)
      => LET Untagged(item) == [item EXCEPT !.source_url = NoUrl]
         IN /\ \A item \in hist[s].dropped :
                 FilterItem(Untagged(item), run[s].config.filters) = "drop"
            /\ \A k \in 1..Len(run[s].allResults) :
                 FilterItem(Untagged(run[s].allResults[k]), run[s].config.filters) = "keep"

\* C24: a multi-site run loads the candidate URLs in the order of their
\* discovery, loads no URL twice, and loads at most maxWebsites candidates
\* (at most 20 when maxWebsites is not set).
CandidatesVisitedOnce ==
  \A s \in Sessions :
    Multi(s)
      => LET visited == hist[s].visited
             cap == IF run[s].config.maxWebsites # Unset THEN run[s].config.maxWebsites
                    ELSE DefaultMaxWebsites
         IN /\ Len(visited) <= Len(run[s].urls)
            /\ visited = SubSeq(run[s].urls, 1, Len(visited))
            /\ \A i, j \in 1..Len(visited) : i # j => visited[i] # visited[j]
            /\ Len(visited) <= cap

CandidatesVisitedOnceWitness ==
  \E s \in Sessions :
    /\ Multi(s) /\ pc[s] = "done" /\ ~hist[s].stopped
    /\ run[s].config.maxWebsites = 1
    /\ run[s].urls = <<Url(1), Url(2)>>
    /\ hist[s].visited = <<Url(1)>>

\* where a run waits for storage.addSessionError to return
ErrorPcs == {"catch", "pageError", "siteError", "setupError"}

\* C25: the error log of a session only grows at its end: no step of a run
\* and no stopScraping call removes, changes or reorders an entry, and each
\* addSessionError call appends exactly one entry.
ErrorLogIsAppendOnly ==
  [][\A s \in Sessions :
       Stored(s)
         => LET old == sessions[s].errorLog
                new == sessions'[s].errorLog
            IN /\ Len(new) >= Len(old)
               /\ SubSeq(new, 1, Len(old)) = old
               /\ IF pc'[s] \in ErrorPcs /\ pc'[s] # pc[s]
                  THEN Len(new) = Len(old) + 1
                  ELSE new = old]_vars

ErrorLogIsAppendOnlyWitness ==
  \E s \in Sessions :
    /\ Stored(s) /\ pc[s] = "done"
    /\ sessions[s].errorLog = << <<"Website", 1>>, <<"Website", 2>> >>

\* C28: once the status of a session is completed, failed or stopped, no
\* step of the run and no stopScraping call changes its results, its
\* progress or its error log.
TerminalSessionIsFrozen ==
  [][\A s \in Sessions :
       (Stored(s) /\ sessions[s].status \in Terminal)
         => /\ sessions'[s].results = sessions[s].results
            /\ sessions'[s].progress = sessions[s].progress
            /\ sessions'[s].errorLog = sessions[s].errorLog]_vars

\* C29: stopScraping(s) sets the flag of s to false and marks session s
\* stopped with an end timestamp, and changes nothing else: results,
\* progress and error log of s, and the flag, the stored session and the
\* position of the run of every other session stay as they were.
StopIsLocal ==
  [][\A s \in Sessions :
       StopScraping(s)
         => /\ activeSessions'[s] = "false"
            /\ Stored(s) => /\ sessions'[s].status = "stopped"
                            /\ sessions'[s].completedAt
                            /\ sessions'[s].results = sessions[s].results
                            /\ sessions'[s].progress = sessions[s].progress
                            /\ sessions'[s].errorLog = sessions[s].errorLog
            /\ \A t \in Sessions \ {s} :
                 /\ activeSessions'[t] = activeSessions[t]
                 /\ sessions'[t] = sessions[t]
                 /\ pc'[t] = pc[t] /\ run'[t] = run[t]]_vars

StopIsLocalWitness ==
  \E s, t \in Sessions :
    /\ s # t
    /\ hist[s].stopped /\ activeSessions[s] = "false"
    /\ ~hist[t].stopped /\ pc[t] = "done" /\ hist[t].faults = {}
    /\ sessions[t].status = "completed"
    /\ Len(sessions[t].results) >= 2
    /\ hist[t].loads >= 2

\* C30: whenever the status of a session is completed, its results are the
\* final results of the run: the accumulated records, deduplicated when
\* removeDuplicates is set; and the results pushed after a page or a site
\* are the accumulated records as they are, duplicates included.
CompletedShowsFinalResults ==
  [][\A s \in Sessions :
       Stored(s)
         => /\ sessions'[s].status = "completed"
                 => sessions'[s].results
                      = IF run'[s].config.removeDuplicates
                        THEN removeDuplicates(run'[s].allResults)
                        ELSE run'[s].allResults
            /\ (pc[s] \in {"progress", "siteProgress"}
                  /\ pc'[s] \in {"results", "siteResults"})
                 => sessions'[s].results = run'[s].allResults]_vars

CompletedShowsFinalResultsWitness ==
  \E s \in Sessions :
    /\ Stored(s) /\ sessions[s].status = "completed"
    /\ run[s].config.removeDuplicates
    /\ Len(run[s].allResults) = 3
    /\ Len(sessions[s].results) = 1
    /\ 2 \in hist[s].pushed

\* C32: every Progress snapshot of a multi-site run has, as total, the
\* number of candidate sites capped by maxWebsites (20 when it is not set)
\* and, as current, the position, counted from 1, of the site just processed,
\* so 1 <= current <= total; a site that fails pushes no snapshot.
SiteProgressCountsSites ==
  \A s \in Sessions :
    (Multi(s) /\ Stored(s) /\ hist[s].pushed # {})
      => LET progress == sessions[s].progress
             candidates == Len(run[s].urls)
             cap == IF run[s].config.maxWebsites # Unset THEN run[s].config.maxWebsites
                    ELSE DefaultMaxWebsites
         IN /\ progress.total = IF candidates < cap THEN candidates ELSE cap
            /\ progress.current \in hist[s].pushed
            /\ \A n \in hist[s].pushed : n <= progress.current
            /\ 1 <= progress.current /\ progress.current <= progress.total
            /\ hist[s].visited[progress.current] = run[s].urls[progress.current]
            /\ hist[s].pushed \cap FailedIterations(s) = {}

SiteProgressCountsSitesWitness ==
  \E s \in Sessions :
    /\ Multi(s) /\ Stored(s) /\ pc[s] = "done"
    /\ run[s].config.maxWebsites = Unset
    /\ Len(run[s].urls) = 2
    /\ FailedIterations(s) = {1}
    /\ hist[s].pushed = {2}
    /\ sessions[s].progress.current = 2 /\ sessions[s].progress.total = 2

\* C33: in every Progress snapshot pushed during a single-site run,
\* current <= total, whatever the configuration.
PageProgressWithinTotal ==
  \A s \in Sessions :
    (Single(s) /\ Stored(s))
      => sessions[s].progress.current <= sessions[s].progress.total

\* C34: when a run ends completed, progress.extracted is the number of
\* records in the final results of the session, whatever the configuration.
ExtractedCountsFinalResults ==
  \A s \in Sessions :
    (Stored(s) /\ sessions[s].status = "completed")
      => sessions[s].progress.extracted = Len(sessions[s].results)

\* C34 as amended: when a run ends completed, progress.extracted is the
\* number of records the run accumulated; that is the number of records in
\* the final results when removeDuplicates is not set, and at least that
\* number when it is set.
ExtractedCountsAccumulated ==
  \A s \in Sessions :
    (Stored(s) /\ sessions[s].status = "completed")
      => /\ sessions[s].progress.extracted = Len(run[s].allResults)
         /\ sessions[s].progress.extracted >= Len(sessions[s].results)
         /\ ~run[s].config.removeDuplicates
              => sessions[s].progress.extracted = Len(sessions[s].results)

ExtractedCountsAccumulatedWitness ==
  \E s \in Sessions :
    /\ Stored(s) /\ sessions[s].status = "completed" /\ pc[s] = "done"
    /\ run[s].config.removeDuplicates
    /\ sessions[s].progress.extracted = 3
    /\ Len(sessions[s].results) = 1

\* C35: a stopScraping call issued at any point after startScraping was
\* invoked is honoured: once it was called, the run issues no page.goto, so
\* the page in flight at the time of the call, if any, is the last one loaded.
StopIsHonoured ==
  [][\A s \in Sessions :
       (pc[s] # "idle" /\ hist[s].stopped) => hist'[s].loads = hist[s].loads]_vars

\* C36: activeSessions holds an entry only for the sessions whose run is in
\* progress: whenever no run is executing, the registry is empty.
RegistryHoldsRunsOnly ==
  (\A s \in Sessions : pc[s] \in {"idle", "done"})
    => \A s \in Sessions : activeSessions[s] = NoEntry

\* ------------------------------------------------ every run comes to an end
\* the configurations the runs are followed to their end with: each mode,
\* one page, pages up to the configured cap or up to the default cap, sites
\* up to the configured cap or up to the default cap; without filters and
\* without deduplication
StoredConfigurations ==
  {c \in ConfigChoices :
     /\ ~c.removeDuplicates
     /\ c.filters = [include |-> NoPattern, exclude |-> NoPattern]
     /\ c.multiWebsite = c.extractUrlsFromResults
     /\ c.handlePagination = c.nextSelector
     /\ c.maxPages \in {Unset, MaxPagesCfg}
     /\ c.maxWebsites \in {Unset, MaxWebsitesCfg}}

InitFair ==
  /\ \E c \in StoredConfigurations :
       configurations = [id \in ConfigIds |-> IF id = 1 THEN c ELSE NoConfig]
  /\ sessions = [s \in Sessions |-> IF s = 1 THEN createSession ELSE NoSession]
  /\ activeSessions = [s \in Sessions |-> NoEntry]
  /\ pc = [s \in Sessions |-> "idle"]
  /\ run = [s \in Sessions |-> NoRun]
  /\ hist = [s \in Sessions |-> NoHist]
  /\ call = NoCall

\* every operation a run awaits returns or throws, so the run takes its
\* next step
SpecFair == InitFair /\ [][Next]_vars /\ \A s \in Sessions : WF_vars(Step(s))

\* C37: every invoked run terminates: startScraping writes a terminal
\* status, completed or failed, and removes the session from the registry,
\* in single-site mode and in multi-site mode.
RunTerminates ==
  \A s \in Sessions :
    (pc[s] = "getConfiguration")
      ~> (/\ pc[s] = "done"
          /\ activeSessions[s] = NoEntry
          /\ hist[s].calls \cap {"completed", "failed"} # {})

RunTerminatesWitness ==
  \E s \in Sessions :
    /\ pc[s] = "done" /\ Single(s)
    /\ run[s].config.maxPages = Unset
    /\ hist[s].loads = DefaultMaxPages
    /\ activeSessions[s] = NoEntry
    /\ sessions[s].status = "completed"

\* ------------------------------------------- removeDuplicates on its own
MaxData == 3           \* items in one list handed to removeDuplicates

FieldNames == {"a", "b"}

\* a ScrapedData object: its fields in insertion order, as JSON.stringify
\* writes them
OrderedRecords ==
  { item \in SeqsUpTo(FieldNames \X RecordVals, 2) :
      /\ Len(item) >= 1
      /\ \A i, j \in 1..Len(item) : i # j => item[i][1] # item[j][1] }

\* the fields of an item, whatever their order
Fields(item) == {item[k] : k \in 1..Len(item)}

\* nothing runs but the function under examination
Quiet ==
  /\ configurations = [id \in ConfigIds |-> NoConfig]
  /\ sessions = [s \in Sessions |-> NoSession]
  /\ activeSessions = [s \in Sessions |-> NoEntry]
  /\ pc = [s \in Sessions |-> "idle"]
  /\ run = [s \in Sessions |-> NoRun]
  /\ hist = [s \in Sessions |-> NoHist]

InitDedupe ==
  /\ Quiet
  /\ \E data \in SeqsUpTo(OrderedRecords, MaxData) :
       call = [fn |-> "removeDuplicates", data |-> data, done |-> FALSE,
               result |-> <<>>]

ApplyRemoveDuplicates ==
  /\ call.fn = "removeDuplicates" /\ ~call.done
  /\ call' = [call EXCEPT !.done = TRUE, !.result = removeDuplicates(call.data)]
  /\ UNCHANGED <<configurations, sessions, activeSessions, pc, run, hist>>

NextDedupe == ApplyRemoveDuplicates

SpecDedupe == InitDedupe /\ [][NextDedupe]_vars

Deduped == call.fn = "removeDuplicates" /\ call.done

\* C13: of two records with the same field names and the same values, in
\* whatever order the fields were inserted, removeDuplicates keeps only the
\* first.
DedupeIgnoresFieldOrder ==
  Deduped
    => \A i, j \in 1..Len(call.result) :
         i < j => Fields(call.result[i]) # Fields(call.result[j])

\* C14: the output of removeDuplicates is the input restricted to the first
\* occurrence of every distinct item, in input order: it is a subsequence
\* of the input, holds no item twice, holds every distinct item of the
\* input, and removeDuplicates leaves it as it is.
DedupeKeepsFirsts ==
  Deduped
    => LET data == call.data
           out == call.result
           firsts == {i \in 1..Len(data) : \A j \in 1..(i - 1) : data[j] # data[i]}
       IN /\ Len(out) = Cardinality(firsts)
          /\ \E f \in [1..Len(out) -> 1..Len(data)] :
               /\ \A k \in 1..Len(out) : f[k] \in firsts /\ out[k] = data[f[k]]
               /\ \A k, l \in 1..Len(out) : k < l => f[k] < f[l]
          /\ \A k, l \in 1..Len(out) : k # l => out[k] # out[l]
          /\ \A i \in 1..Len(data) : \E k \in 1..Len(out) : out[k] = data[i]
          /\ removeDuplicates(out) = out

DedupeKeepsFirstsWitness ==
  /\ Deduped
  /\ Len(call.data) = 3 /\ Len(call.result) = 2
  /\ call.data[1] = call.data[3]
  /\ call.result = <<call.data[1], call.data[2]>>

\* ----------------------------------------------- applyFilters on its own
\* items with one or two fields; a value may be null or in upper case
FilterItems ==
  [v : {1, Upper(1), 2, Null}, source_url : {NoUrl, 1, 2}]

ExcludeTwoUpper == [set |-> TRUE, valid |-> TRUE, matches |-> {Upper(2)}]

FilterSets ==
  [include : {NoPattern, IncludeOne, Invalid},
   exclude : {NoPattern, ExcludeTwoUpper, Invalid}]

InitFilter ==
  /\ Quiet
  /\ \E data \in SeqsUpTo(FilterItems, MaxData), filters \in FilterSets :
       call = [fn |-> "applyFilters", data |-> data, filters |-> filters,
               done |-> FALSE, result |-> [threw |-> FALSE, data |-> <<>>]]

ApplyFilters ==
  /\ call.fn = "applyFilters" /\ ~call.done
  /\ call' = [call EXCEPT !.done = TRUE,
                          !.result = applyFilters(call.data, call.filters)]
  /\ UNCHANGED <<configurations, sessions, activeSessions, pc, run, hist>>

NextFilter == ApplyFilters

SpecFilter == InitFilter /\ [][NextFilter]_vars

Filtered == call.fn = "applyFilters" /\ call.done

\* some non-null field value of the item matches the pattern, whatever the case
MatchesSomeField(item, pattern) ==
  \E x \in {item.v, item.source_url} \ {NoUrl, Null} :
    \E m \in pattern.matches : Lower(m) = Lower(x)

InvalidPatternAlwaysThrows ==
  (Filtered /\ (~call.filters.include.valid \/ ~call.filters.exclude.valid))
    => call.result.threw

\* C16 as amended: a pattern that does not compile makes applyFilters throw
\* exactly when the pattern is compiled: an include pattern when the list
\* is not empty, an exclude pattern when some record passes the include
\* test; otherwise the call returns normally (with an empty list).
InvalidPatternThrowsWhenCompiled ==
  Filtered
    => LET include == call.filters.include
           exclude == call.filters.exclude
           compiled ==
             \/ ~include.valid /\ call.data # <<>>
             \/ /\ include.valid /\ ~exclude.valid
                /\ \E k \in 1..Len(call.data) :
                     ~include.set \/ MatchesSomeField(call.data[k], include)
       IN /\ call.result.threw <=> compiled
          /\ (~call.result.threw /\ (~include.valid \/ ~exclude.valid))
               => call.result.data = <<>>

InvalidPatternWitness ==
  /\ Filtered
  /\ call.filters = [include |-> IncludeOne, exclude |-> Invalid]
  /\ Len(call.data) = 2
  /\ \A k \in 1..2 : ~MatchesSomeField(call.data[k], IncludeOne)
  /\ ~call.result.threw

\* --------------------------- extractDataFromPage: element-bound selectors
MaxElements == 2

SelectorNames == <<"title", "price">>

\* What is left of a value after a match: the matched part, the first group.
Full(value) == 10 + value

Group(value) == 20 + value

\* selector.regex: absent, not compiling, without a group, with a group that
\* captures text, with a group that captures nothing (empty, or not taking
\* part in the match)
NoRegex ==
  [set |-> FALSE, valid |-> TRUE, hasGroup |-> FALSE, groupEmpty |-> FALSE, matches |-> {}]

InvalidRegex ==
  [set |-> TRUE, valid |-> FALSE, hasGroup |-> FALSE, groupEmpty |-> FALSE, matches |-> {}]

WholeRegex ==
  [set |-> TRUE, valid |-> TRUE, hasGroup |-> FALSE, groupEmpty |-> FALSE, matches |-> {1}]

GroupRegex ==
  [set |-> TRUE, valid |-> TRUE, hasGroup |-> TRUE, groupEmpty |-> FALSE, matches |-> {1}]

EmptyGroupRegex ==
  [set |-> TRUE, valid |-> TRUE, hasGroup |-> TRUE, groupEmpty |-> TRUE, matches |-> {1, 2}]

RegexChoices == {NoRegex, InvalidRegex, WholeRegex, GroupRegex, EmptyGroupRegex}

\* elements: what the selector's attribute reads on each element it matches,
\* in document order; Null is an element whose attribute is empty or absent
SelectorChoices ==
  [required : BOOLEAN, regex : RegexChoices,
   elements : SeqsUpTo({1, 2, Null}, MaxElements)]

\* regex.exec(value) on a value the pattern matches
Exec(regex, value) ==
  [full  |-> Full(value),
   group |-> IF ~regex.hasGroup THEN Undefined
             ELSE IF regex.groupEmpty THEN Empty
             ELSE Group(value)]

\* a value the pattern does not match is kept
ApplyRegexKeepsRaw(regex, value) ==
  IF Truthy(value) /\ regex.set
  THEN IF ~regex.valid THEN value
       ELSE IF value \in regex.matches
            THEN LET matches == Exec(regex, value)
                 IN IF Truthy(matches.group) THEN matches.group   \* matches[1] ||
                    ELSE matches.full                             \* matches[0]
            ELSE value
  ELSE value

\* if (value && selector.regex) { try { ... } catch { } }
ApplyRegex(regex, value) ==
  IF Truthy(value) /\ regex.set
  THEN IF ~regex.valid THEN value
       ELSE IF value \in regex.matches
            THEN LET matches == Exec(regex, value)
                 IN IF Truthy(matches.group) THEN matches.group   \* matches[1] ||
                    ELSE matches.full                             \* matches[0]
            ELSE Null
  ELSE value

HasElement(selector, index) == index <= Len(selector.elements)

\* the value a selector yields on its index-th element
FieldValue(selector, index) ==
  IF HasElement(selector, index)
  THEN ApplyRegex(selector.regex, selector.elements[index])
  ELSE Null

NewItem == [item |-> <<>>, hasData |-> FALSE, skipItem |-> FALSE]

NoResults == [records |-> <<>>, indices |-> <<>>]

\* a required field that is missing is left out of the item
MultiStepDropsField(acc, selector, index) ==
  IF HasElement(selector, index) /\ Truthy(FieldValue(selector, index))
  THEN [acc EXCEPT !.item = Append(@, <<selector.name, FieldValue(selector, index)>>),
                   !.hasData = TRUE]
  ELSE acc

\* one selector of the loop over itemSelectors
MultiStep(acc, selector, index) ==
  IF HasElement(selector, index)
  THEN IF Truthy(FieldValue(selector, index))
       THEN [acc EXCEPT !.item = Append(@, <<selector.name, FieldValue(selector, index)>>),
                        !.hasData = TRUE]
       ELSE IF selector.required THEN [acc EXCEPT !.skipItem = TRUE]
       ELSE acc
  ELSE IF selector.required THEN [acc EXCEPT !.skipItem = TRUE]
  ELSE acc

RECURSIVE MultiItem(_, _, _, _)
MultiItem(itemSelectors, index, k, acc) ==
  IF k > Len(itemSelectors) \/ acc.skipItem THEN acc
  ELSE MultiItem(itemSelectors, index, k + 1, MultiStep(acc, itemSelectors[k], index))

\* an item without any field is pushed as well
PushItemWithoutData(results, acc, index) ==
  IF ~acc.skipItem
  THEN [records |-> Append(results.records, acc.item),
        indices |-> Append(results.indices, index)]
  ELSE results

\* if (hasData && !skipItem) results.push(item); indices remembers the index
\* each record was built for
PushItem(results, acc, index) ==
  IF acc.hasData /\ ~acc.skipItem
  THEN [records |-> Append(results.records, acc.item),
        indices |-> Append(results.indices, index)]
  ELSE results

RECURSIVE MultiItems(_, _, _, _)
MultiItems(itemSelectors, maxElements, index, results) ==
  IF index > maxElements THEN results
  ELSE MultiItems(itemSelectors, maxElements, index + 1,
                  PushItem(results, MultiItem(itemSelectors, index, 1, NewItem), index))

\* one selector of the single-item loop: the first element, required ignored
SingleStep(acc, selector) ==
  IF HasElement(selector, 1) /\ Truthy(FieldValue(selector, 1))
  THEN [acc EXCEPT !.item = Append(@, <<selector.name, FieldValue(selector, 1)>>),
                   !.hasData = TRUE]
  ELSE acc

RECURSIVE SingleItem(_, _, _)
SingleItem(elementSelectors, k, acc) ==
  IF k > Len(elementSelectors) THEN acc
  ELSE SingleItem(elementSelectors, k + 1, SingleStep(acc, elementSelectors[k]))

RECURSIVE MaxElementsOf(_)
MaxElementsOf(selectors) ==
  IF selectors = <<>> THEN 0
  ELSE LET rest == MaxElementsOf(Tail(selectors))
           n == Len(Head(selectors).elements)
       IN IF n > rest THEN n ELSE rest

extractElements(selectors) ==
  IF Len(selectors) = 0 THEN NoResults
  ELSE IF MaxElementsOf(selectors) > 1
       THEN MultiItems(selectors, MaxElementsOf(selectors), 1, NoResults)
       ELSE LET acc == SingleItem(selectors, 1, NewItem)
            IN IF acc.hasData
               THEN [records |-> <<acc.item>>, indices |-> <<1>>]
               ELSE NoResults

InitExtract ==
  /\ Quiet
  /\ \E n \in 0..Len(SelectorNames) :
       \E choice \in [1..n -> SelectorChoices] :
         call = [fn |-> "extractDataFromPage",
                 selectors |-> [k \in 1..n |->
                                  [name |-> SelectorNames[k],
                                   required |-> choice[k].required,
                                   regex |-> choice[k].regex,
                                   elements |-> choice[k].elements]],
                 done |-> FALSE, result |-> NoResults]

ApplyExtract ==
  /\ call.fn = "extractDataFromPage" /\ ~call.done
  /\ call' = [call EXCEPT !.done = TRUE, !.result = extractElements(call.selectors)]
  /\ UNCHANGED <<configurations, sessions, activeSessions, pc, run, hist>>

NextExtract == ApplyExtract

SpecExtract == InitExtract /\ [][NextExtract]_vars

ExtractDone == call.fn = "extractDataFromPage" /\ call.done

MultiMode == MaxElementsOf(call.selectors) > 1

SelectorIds == 1..Len(call.selectors)

\* the record the selectors describe at one index: every field with a value
Candidate(index) ==
  LET fields == [k \in SelectorIds |->
                   <<call.selectors[k].name, FieldValue(call.selectors[k], index)>>]
      Filled(field) == Truthy(field[2])
  IN SelectSeq(fields, Filled)

CandidatesWithData(n) ==
  LET NotEmpty(item) == item # <<>>
  IN SelectSeq([i \in 1..n |-> Candidate(i)], NotEmpty)

\* the positions of the result built for one index
RecordsAt(index) ==
  {j \in 1..Len(call.result.records) : call.result.indices[j] = index}

\* C17 as claimed: when the largest match set has N > 1 elements and no
\* selector is required, exactly N records are returned.
ExtractReturnsN ==
  (ExtractDone /\ MultiMode /\ \A k \in SelectorIds : ~call.selectors[k].required)
    => Len(call.result.records) = MaxElementsOf(call.selectors)

\* C17 as amended: when the largest match set has N > 1 elements and no
\* selector is required, one record is returned for each index at which
\* some selector yields a value, in index order, combining the values the
\* selectors yield at that index; so N records only when every index has a
\* value.
ExtractReturnsFilledIndices ==
  (ExtractDone /\ MultiMode /\ \A k \in SelectorIds : ~call.selectors[k].required)
    => /\ call.result.records = CandidatesWithData(MaxElementsOf(call.selectors))
       /\ Len(call.result.records) <= MaxElementsOf(call.selectors)
       /\ (\A i \in 1..MaxElementsOf(call.selectors) : Candidate(i) # <<>>)
            => Len(call.result.records) = MaxElementsOf(call.selectors)

ExtractReturnsFilledIndicesWitness ==
  /\ ExtractDone /\ MultiMode
  /\ Len(call.selectors) = 2
  /\ \A k \in SelectorIds :
       /\ ~call.selectors[k].required
       /\ Len(call.selectors[k].elements) = 2
       /\ call.selectors[k].elements[1] = Null
       /\ call.selectors[k].elements[2] # Null
       /\ ~call.selectors[k].regex.set
  /\ call.result.indices = <<2>>
  /\ Len(call.result.records[1]) = 2

\* C18: in multi-item mode a required selector without an element or
\* without a value at index i removes record i, and every other index
\* that has a value keeps its whole record; in single-item mode required
\* is ignored: the record is returned whenever some field has a value.
RequiredDiscardsItem ==
  ExtractDone
    => IF MultiMode
       THEN \A i \in 1..MaxElementsOf(call.selectors) :
              LET missing == \E k \in SelectorIds :
                               /\ call.selectors[k].required
                               /\ ~Truthy(FieldValue(call.selectors[k], i))
              IN /\ missing => RecordsAt(i) = {}
                 /\ (~missing /\ Candidate(i) # <<>>)
                      => /\ Cardinality(RecordsAt(i)) = 1
                         /\ \A j \in RecordsAt(i) : call.result.records[j] = Candidate(i)
       ELSE call.result.records
              = IF Candidate(1) # <<>> THEN <<Candidate(1)>> ELSE <<>>

RequiredDiscardsItemWitness ==
  /\ ExtractDone /\ MultiMode
  /\ Len(call.selectors) = 2
  /\ call.selectors[1].required /\ ~call.selectors[2].required
  /\ call.selectors[1].elements = <<Null, 1>>
  /\ call.selectors[2].elements = <<1, 2>>
  /\ ~call.selectors[1].regex.set /\ ~call.selectors[2].regex.set
  /\ call.result.indices = <<2>>
  /\ call.result.records = << <<(<<"title", 1>>), (<<"price", 2>>)>> >>

\* C19: when a selector's regex matches the value read from the element,
\* the field holds the first capture group if the pattern has a group, and
\* the full match only if the pattern has no group.
FirstGroupWins ==
  ExtractDone
    => \A j \in 1..Len(call.result.records), k \in SelectorIds :
         LET selector == call.selectors[k]
             index == call.result.indices[j]
             record == call.result.records[j]
         IN (/\ HasElement(selector, index)
             /\ Truthy(selector.elements[index])
             /\ selector.regex.set /\ selector.regex.valid
             /\ selector.elements[index] \in selector.regex.matches)
              => \A field \in Fields(record) :
                   field[1] = selector.name
                     => field[2] = IF selector.regex.hasGroup
                                   THEN Exec(selector.regex, selector.elements[index]).group
                                   ELSE Exec(selector.regex, selector.elements[index]).full

\* C20 as claimed: when the selector's regex does not compile or does not
\* match the value read from the element, the field holds that raw value.
RegexFailureKeepsRaw ==
  ExtractDone
    => \A j \in 1..Len(call.result.records), k \in SelectorIds :
         LET selector == call.selectors[k]
             index == call.result.indices[j]
         IN (/\ HasElement(selector, index)
             /\ Truthy(selector.elements[index])
             /\ selector.regex.set
             /\ \/ ~selector.regex.valid
                \/ selector.elements[index] \notin selector.regex.matches)
              => <<selector.name, selector.elements[index]>>
                   \in Fields(call.result.records[j])

\* C20 as amended: a regex that does not compile leaves the raw value in
\* the field; a regex that compiles and does not match makes the value
\* null, so the field is missing from the record, and in multi-item mode
\* the record is discarded if the selector is required.
RegexFailure ==
  ExtractDone
    => \A k \in SelectorIds :
         \A i \in 1..(IF MultiMode THEN Len(call.selectors[k].elements) ELSE 1) :
           LET selector == call.selectors[k]
           IN (HasElement(selector, i) /\ Truthy(selector.elements[i]) /\ selector.regex.set)
                => /\ ~selector.regex.valid
                        => \A j \in RecordsAt(i) :
                             <<selector.name, selector.elements[i]>>
                               \in Fields(call.result.records[j])
                   /\ (selector.regex.valid /\ selector.elements[i] \notin selector.regex.matches)
                        => /\ \A j \in RecordsAt(i) :
                                \A field \in Fields(call.result.records[j]) :
                                  field[1] # selector.name
                           /\ (MultiMode /\ selector.required) => RecordsAt(i) = {}

RegexFailureWitness ==
  /\ ExtractDone /\ MultiMode
  /\ Len(call.selectors) = 2
  /\ call.selectors[1].regex = WholeRegex /\ call.selectors[2].regex = InvalidRegex
  /\ call.selectors[1].elements = <<2, 2>>
  /\ call.selectors[2].elements = <<1, 2>>
  /\ ~call.selectors[1].required
  /\ call.result.records = << <<(<<"price", 1>>)>>, <<(<<"price", 2>>)>> >>

\* ------------------------ extractDataFromPage: pure-regex selectors first
MaxTokens == 2         \* pieces of page text a pattern can match

\* a text with blanks around it, and what trim() makes of it
Padded(value) == 200 + value

\* a text made of blanks only: truthy, and trim() makes it the empty string
Blanks == 400

Trim(value) ==
  IF value \in {Blanks, Full(Blanks), Group(Blanks)} THEN Empty
  ELSE IF value > 200 THEN value - 200 ELSE value

\* a pattern without a group whose match takes the blanks around the text
PaddedRegex ==
  [set |-> TRUE, valid |-> TRUE, hasGroup |-> FALSE, groupEmpty |-> FALSE,
   matches |-> {1, Padded(1)}]

\* a pattern without a group that matches a run of blanks
BlankRegex ==
  [set |-> TRUE, valid |-> TRUE, hasGroup |-> FALSE, groupEmpty |-> FALSE,
   matches |-> {Blanks}]

\* css: the selector has a cssSelector or an xpath
PageSelectorChoices ==
  [css : {TRUE}, required : BOOLEAN, regex : {NoRegex},
   elements : SeqsUpTo({1, Null}, MaxElements)]
  \cup
  [css : {FALSE}, required : {FALSE},
   regex : {NoRegex, InvalidRegex, PaddedRegex, BlankRegex, GroupRegex,
            EmptyGroupRegex},
   elements : {<<>>}]

\* document.body.textContent, as the pieces a pattern can match, in order
PageTexts == SeqsUpTo({1, 2, Padded(1), Blanks}, MaxTokens)

IsPureRegex(selector) == selector.regex.set /\ ~selector.css

IsElementBound(selector) == selector.css

\* while ((match = regex.exec(pageText)) !== null) { ... push ... }
RECURSIVE RegexMatches(_, _)
RegexMatches(selector, pageText) ==
  IF pageText = <<>> THEN <<>>
  ELSE IF Head(pageText) \in selector.regex.matches
       THEN LET match == Exec(selector.regex, Head(pageText))
                value == IF Truthy(match.group) THEN match.group ELSE match.full
            IN (IF Truthy(value) THEN << <<(<<selector.name, Trim(value)>>)>> >> ELSE <<>>)
                 \o RegexMatches(selector, Tail(pageText))
       ELSE RegexMatches(selector, Tail(pageText))

\* pureRegexSelectors.forEach: a pattern that does not compile adds nothing
RECURSIVE RegexResults(_, _)
RegexResults(pureRegexSelectors, pageText) ==
  IF pureRegexSelectors = <<>> THEN <<>>
  ELSE (IF Head(pureRegexSelectors).regex.valid
        THEN RegexMatches(Head(pureRegexSelectors), pageText)
        ELSE <<>>)
         \o RegexResults(Tail(pureRegexSelectors), pageText)

\* [...results, ...regexResults]
extractDataFromPageElementsFirst(selectors, pageText) ==
  IF Len(selectors) = 0 THEN <<>>
  ELSE extractElements(SelectSeq(selectors, IsElementBound)).records
         \o RegexResults(SelectSeq(selectors, IsPureRegex), pageText)

extractDataFromPage(selectors, pageText) ==
  IF Len(selectors) = 0 THEN <<>>
  ELSE RegexResults(SelectSeq(selectors, IsPureRegex), pageText)
         \o extractElements(SelectSeq(selectors, IsElementBound)).records

InitPage ==
  /\ Quiet
  /\ \E n \in 0..Len(SelectorNames), pageText \in PageTexts :
       \E choice \in [1..n -> PageSelectorChoices] :
         call = [fn |-> "extractDataFromPage (page)",
                 selectors |-> [k \in 1..n |->
                                  [name |-> SelectorNames[k],
                                   css |-> choice[k].css,
                                   required |-> choice[k].required,
                                   regex |-> choice[k].regex,
                                   elements |-> choice[k].elements]],
                 pageText |-> pageText,
                 done |-> FALSE, result |-> <<>>]

ApplyPage ==
  /\ call.fn = "extractDataFromPage (page)" /\ ~call.done
  /\ call' = [call EXCEPT !.done = TRUE,
                          !.result = extractDataFromPage(call.selectors, call.pageText)]
  /\ UNCHANGED <<configurations, sessions, activeSessions, pc, run, hist>>

NextPage == ApplyPage

SpecPage == InitPage /\ [][NextPage]_vars

PageDone == call.fn = "extractDataFromPage (page)" /\ call.done

\* the values a pure-regex selector takes from the page, in page order
MatchValues(selector) ==
  LET Hit(token) == selector.regex.valid /\ token \in selector.regex.matches
      hits == SelectSeq(call.pageText, Hit)
  IN [i \in 1..Len(hits) |->
        IF selector.regex.hasGroup /\ ~selector.regex.groupEmpty
        THEN Trim(Group(hits[i])) ELSE Trim(Full(hits[i]))]

\* C21: every pure-regex selector yields one record per match of its pattern
\* in the page text, holding that one field; these records come first in the
\* output, in selector order and page order, followed by the element-bound
\* records, which hold no field of a pure-regex selector.
RegexRecordsComeFirst ==
  PageDone
    => LET pure == {k \in 1..Len(call.selectors) : IsPureRegex(call.selectors[k])}
           Count(k) == Len(MatchValues(call.selectors[k]))
           Before(k) == LET RECURSIVE Sum(_)
                            Sum(S) == IF S = {} THEN 0
                                      ELSE LET x == CHOOSE x \in S : TRUE
                                           IN Count(x) + Sum(S \ {x})
                        IN Sum({m \in pure : m < k})
           total == Before(Len(call.selectors) + 1)
           elementBound == SubSeq(call.result, total + 1, Len(call.result))
       IN /\ Len(call.result) >= total
          /\ \A k \in pure : \A i \in 1..Count(k) :
               call.result[Before(k) + i]
                 = << <<call.selectors[k].name, MatchValues(call.selectors[k])[i]>> >>
          /\ \A j \in 1..Len(elementBound) : \A field \in Fields(elementBound[j]) :
               \E k \in 1..Len(call.selectors) :
                 /\ IsElementBound(call.selectors[k])
                 /\ field[1] = call.selectors[k].name
          /\ elementBound = extractElements(SelectSeq(call.selectors, IsElementBound)).records

RegexRecordsComeFirstWitness ==
  /\ PageDone
  /\ Len(call.selectors) = 2
  /\ IsElementBound(call.selectors[1]) /\ call.selectors[1].elements = <<1, 1>>
  /\ IsPureRegex(call.selectors[2]) /\ call.selectors[2].regex = PaddedRegex
  /\ call.pageText = <<Padded(1), 1>>
  /\ call.result = << <<(<<"price", 11>>)>>, <<(<<"price", 11>>)>>,
                      <<(<<"title", 1>>)>>, <<(<<"title", 1>>)>> >>

\* C31: every record extractDataFromPage returns has at least one field whose
\* value is neither null nor the empty string.
RecordsHoldData ==
  PageDone
    => \A j \in 1..Len(call.result) :
         \E field \in Fields(call.result[j]) : Truthy(field[2])

\* ----------------------------- the scan of one pure-regex selector, by steps
\* nullable: the pattern can match the empty string (a*, \\d*, x?)
ScanSelectorChoices ==
  { c \in [regex : {InvalidRegex, PaddedRegex, BlankRegex, GroupRegex, EmptyGroupRegex},
           nullable : BOOLEAN] : c.nullable => c.regex.valid }

\* regex.exec returned null
NoMatch == [found |-> FALSE, full |-> Undefined, group |-> Undefined]

\* regex.exec returned a match
Found(match) == [found |-> TRUE, full |-> match.full, group |-> match.group]

\* regex.exec matched the empty string
EmptyMatch(regex) ==
  [found |-> TRUE, full |-> Empty,
   group |-> IF regex.hasGroup THEN Empty ELSE Undefined]

InitScan ==
  /\ Quiet
  /\ \E choice \in ScanSelectorChoices, pageText \in PageTexts :
       call = [fn |-> "extractDataFromPage (scan)",
               selector |-> [name |-> SelectorNames[1], regex |-> choice.regex,
                             nullable |-> choice.nullable],
               pageText |-> pageText,
               pc |-> "compile", lastIndex |-> 0, match |-> NoMatch,
               regexResults |-> <<>>]

\* new RegExp(selector.regex, 'g'): a pattern that does not compile is logged
ScanCompile ==
  /\ call.fn = "extractDataFromPage (scan)" /\ call.pc = "compile"
  /\ call' = [call EXCEPT !.pc = IF call.selector.regex.valid THEN "exec" ELSE "done"]
  /\ UNCHANGED <<configurations, sessions, activeSessions, pc, run, hist>>

\* match = regex.exec(pageText): the search starts at lastIndex, which becomes
\* the end of the match, or 0 when there is none
ScanExec ==
  /\ call.fn = "extractDataFromPage (scan)" /\ call.pc = "exec"
  /\ LET regex == call.selector.regex
         pageText == call.pageText
         from == call.lastIndex
         hits == {p \in (from + 1)..Len(pageText) : pageText[p] \in regex.matches}
         next == CHOOSE p \in hits : \A q \in hits : p <= q
     IN IF call.selector.nullable /\ (from + 1) \notin hits
        THEN call' = [call EXCEPT !.pc = "push", !.match = EmptyMatch(regex)]
        ELSE IF hits # {}
        THEN call' = [call EXCEPT !.pc = "push", !.lastIndex = next,
                                  !.match = Found(Exec(regex, pageText[next]))]
        ELSE call' = [call EXCEPT !.pc = "done", !.lastIndex = 0, !.match = NoMatch]
  /\ UNCHANGED <<configurations, sessions, activeSessions, pc, run, hist>>

\* the body of the while loop
ScanPush ==
  /\ call.fn = "extractDataFromPage (scan)" /\ call.pc = "push"
  /\ LET value == IF Truthy(call.match.group) THEN call.match.group ELSE call.match.full
     IN call' = [call EXCEPT
                   !.pc = "exec",
                   !.regexResults =
                      IF Truthy(value)
                      THEN Append(@, <<(<<call.selector.name, Trim(value)>>)>>)
                      ELSE @]
  /\ UNCHANGED <<configurations, sessions, activeSessions, pc, run, hist>>

NextScan == ScanCompile \/ ScanExec \/ ScanPush

\* the page function runs on: every step of the scan is taken
SpecScan == InitScan /\ [][NextScan]_vars /\ WF_vars(NextScan)

\* C38: the pure-regex scan terminates for every pattern and every page
\* text, patterns that can match the empty string included.
ScanTerminates == <>(call.pc = "done")

\* ------------------------- configurations rewritten while a run goes on
\* what the operator has stored when the run starts
StoredAtStart ==
  { [handlePagination |-> TRUE, nextSelector |-> TRUE, maxPages |-> MaxPagesCfg,
     removeDuplicates |-> FALSE, multiWebsite |-> FALSE,
     extractUrlsFromResults |-> FALSE, maxWebsites |-> Unset,
     filters |-> [include |-> NoPattern, exclude |-> NoPattern]],
    [handlePagination |-> FALSE, nextSelector |-> FALSE, maxPages |-> Unset,
     removeDuplicates |-> FALSE, multiWebsite |-> TRUE,
     extractUrlsFromResults |-> TRUE, maxWebsites |-> MaxWebsitesCfg,
     filters |-> [include |-> NoPattern, exclude |-> NoPattern]] }

\* Partial<InsertScrapingConfiguration>: new filters, new pagination, new options
Updates ==
  { [filters |-> [include |-> IncludeOne, exclude |-> NoPattern]],
    [handlePagination |-> FALSE, nextSelector |-> FALSE, maxPages |-> Unset],
    [removeDuplicates |-> TRUE, multiWebsite |-> FALSE,
     extractUrlsFromResults |-> FALSE, maxWebsites |-> Unset] }

\* { ...existing, ...updates }
updateConfiguration(existing, updates) ==
  IF existing = NoConfig THEN existing
  ELSE LET Pick(field) == IF field \in DOMAIN updates THEN updates[field]
                          ELSE existing[field]
       IN [handlePagination |-> Pick("handlePagination"),
           nextSelector |-> Pick("nextSelector"),
           maxPages |-> Pick("maxPages"),
           removeDuplicates |-> Pick("removeDuplicates"),
           multiWebsite |-> Pick("multiWebsite"),
           extractUrlsFromResults |-> Pick("extractUrlsFromResults"),
           maxWebsites |-> Pick("maxWebsites"),
           filters |-> Pick("filters")]

\* Object.assign(existing, updates): the object a run got from the store is
\* written too
ExistingAssigned(r, id, updated) ==
  IF r.configId = id /\ r.config # NoConfig THEN [r EXCEPT !.config = updated] ELSE r

\* the object a run got from getConfiguration after the store has put a new
\* object under the id: it is not written
Existing(r, id, updated) == r

UpdateConfiguration(id, updates) ==
  /\ configurations[id] # NoConfig
  /\ configurations' =
       [configurations EXCEPT ![id] = updateConfiguration(@, updates)]
  /\ run' = [s \in Sessions |-> Existing(run[s], id, configurations'[id])]
  /\ UNCHANGED <<sessions, activeSessions, pc, hist, call>>

DeleteConfiguration(id) ==
  /\ configurations' = [configurations EXCEPT ![id] = NoConfig]
  /\ UNCHANGED <<sessions, activeSessions, pc, run, hist, call>>

InitUpdates ==
  /\ \E c \in StoredAtStart :
       configurations = [id \in ConfigIds |-> IF id = 1 THEN c ELSE NoConfig]
  /\ sessions = [s \in Sessions |-> IF s = 1 THEN createSession ELSE NoSession]
  /\ activeSessions = [s \in Sessions |-> NoEntry]
  /\ pc = [s \in Sessions |-> "idle"]
  /\ run = [s \in Sessions |-> NoRun]
  /\ hist = [s \in Sessions |-> NoHist]
  /\ call = NoCall

NextUpdates ==
  \/ Next
  \/ \E id \in ConfigIds, updates \in Updates : UpdateConfiguration(id, updates)
  \/ \E id \in ConfigIds : DeleteConfiguration(id)

SpecUpdates == InitUpdates /\ [][NextUpdates]_vars

\* C26: the configuration a run works with is the one getConfiguration
\* handed to it: updateConfiguration and deleteConfiguration on the stored
\* configuration while the run goes on change none of its settings, and
\* the page cap in force stays that of the configuration the run started
\* with.
ConfigurationIsSnapshot ==
  [][\A s \in Sessions :
       pc[s] # "idle"
         => /\ run'[s].config = run[s].config
            /\ Single(s) => hist'[s].loads <= PageLimit(run[s].config)]_vars

ConfigurationIsSnapshotWitness ==
  \E s \in Sessions :
    /\ pc[s] = "goto" /\ run[s].currentPage = 2
    /\ configurations[run[s].configId] # NoConfig
    /\ ~configurations[run[s].configId].handlePagination
    /\ run[s].config.handlePagination

\* --------------------------------------------------------- testSelector
NoContent == -4            \* 'Element found but no content' and its like

TestSelectorChoices ==
  [css : {TRUE}, required : {FALSE}, regex : RegexChoices,
   elements : SeqsUpTo({1, 2, Null}, MaxElements)]
  \cup
  [css : {FALSE}, required : {FALSE}, regex : RegexChoices, elements : {<<>>}]

Success(preview) == [success |-> TRUE, preview |-> preview, error |-> "none"]

Failure(error) == [success |-> FALSE, preview |-> Undefined, error |-> error]

\* a pattern that does not compile leaves the value as it was read
testSelectorKeepsRaw(sel, pageText, fault) ==
  IF fault THEN Failure("thrown")
  ELSE IF sel.css /\ HasElement(sel, 1)
  THEN LET value == ApplyRegex(sel.regex, sel.elements[1])
       IN Success(IF Truthy(value) THEN value ELSE NoContent)
  ELSE Failure("Element not found")

\* fault: initBrowser, newPage, goto or page.close throws
testSelector(sel, pageText, fault) ==
  IF fault THEN Failure("thrown")
  ELSE IF sel.css /\ HasElement(sel, 1)
  THEN LET raw == sel.elements[1]
       IN IF Truthy(raw) /\ sel.regex.set
          THEN IF ~sel.regex.valid THEN Failure("Invalid regex pattern")
               ELSE IF raw \in sel.regex.matches
               THEN LET matches == Exec(sel.regex, raw)
                    IN Success(IF Truthy(matches.group) THEN matches.group
                               ELSE matches.full)
               ELSE Success(NoContent)
          ELSE Success(IF Truthy(raw) THEN raw ELSE NoContent)
  ELSE IF sel.regex.set /\ ~sel.css
  THEN IF ~sel.regex.valid THEN Failure("Invalid regex pattern")
       ELSE LET Hit(token) == token \in sel.regex.matches
                hits == SelectSeq(pageText, Hit)
            IN IF hits = <<>> THEN Failure("Regex pattern did not match any content")
               ELSE LET matches == Exec(sel.regex, hits[1])
                        value == IF Truthy(matches.group) THEN matches.group
                                 ELSE matches.full
                    IN Success(IF Truthy(Trim(value)) THEN Trim(value) ELSE NoContent)
  ELSE Failure("Element not found")

InitTest ==
  /\ Quiet
  /\ \E choice \in TestSelectorChoices, pageText \in PageTexts, fault \in BOOLEAN :
       call = [fn |-> "testSelector",
               selector |-> [name |-> SelectorNames[1], css |-> choice.css,
                             required |-> choice.required, regex |-> choice.regex,
                             elements |-> choice.elements],
               pageText |-> pageText, fault |-> fault,
               done |-> FALSE, result |-> Failure("none")]

ApplyTest ==
  /\ call.fn = "testSelector" /\ ~call.done
  /\ call' = [call EXCEPT !.done = TRUE,
                          !.result = testSelector(call.selector, call.pageText, call.fault)]
  /\ UNCHANGED <<configurations, sessions, activeSessions, pc, run, hist>>

NextTest == ApplyTest

SpecTest == InitTest /\ [][NextTest]_vars

\* testSelector has returned for an element-bound selector and nothing threw
TestedOnPage ==
  call.fn = "testSelector" /\ call.done /\ call.selector.css /\ ~call.fault

\* C27 as claimed: testSelector succeeds with preview v exactly when the
\* single-item extraction of the selector gives its field the value v, and
\* fails exactly when that extraction gives the field no value.
TestSelectorAgrees ==
  TestedOnPage
    => LET acc == SingleItem(<<call.selector>>, 1, NewItem)
       IN /\ call.result.success <=> acc.hasData
          /\ acc.hasData => call.result.preview = acc.item[1][2]

\* C27 as amended: for an element-bound selector whose page loads,
\* testSelector fails when the selector matches no element or when a value
\* was read and the regex does not compile (the extraction keeps the raw
\* value there); otherwise it succeeds, and its preview is the value the
\* single-item extraction gives the field, or a placeholder text when that
\* extraction gives the field no value (empty content, regex without match).
TestSelectorReportsElement ==
  TestedOnPage
    => LET sel == call.selector
           acc == SingleItem(<<sel>>, 1, NewItem)
           broken == /\ HasElement(sel, 1) /\ Truthy(sel.elements[1])
                     /\ sel.regex.set /\ ~sel.regex.valid
       IN /\ call.result.success <=> (HasElement(sel, 1) /\ ~broken)
          /\ (call.result.success /\ acc.hasData)
               => call.result.preview = acc.item[1][2]
          /\ (call.result.success /\ ~acc.hasData)
               => call.result.preview = NoContent
          /\ broken => acc.item = << <<sel.name, sel.elements[1]>> >>

TestSelectorReportsElementWitness ==
  /\ TestedOnPage
  /\ call.selector.regex = WholeRegex
  /\ call.selector.elements = <<2, 1>>
  /\ call.result = Success(NoContent)

====
